---- MODULE Spec2Model ----
(***************************************************************************)
(* Model of the Zelda PH/ST script codec (zeldaScripts.py) and of the      *)
(* text disassembler (disassembler.py).                                    *)
(*                                                                         *)
(* Representation.  An instruction value is kept as the sequence of its 8  *)
(* little-endian bytes (index 1 = byte 0).  A Python int that can exceed   *)
(* 2^31 - 1 (the u32 parameter of DO, scriptID, flag_bit) is kept as a     *)
(* "Big": a little-endian sequence of base-256 digits of any length.       *)
(* struct.unpack / struct.pack conversions are modelled field by field,    *)
(* with their range checks and two's-complement rules.                     *)
(***************************************************************************)
EXTENDS Integers, Sequences, FiniteSets, TLC

\* ------------------------------------------------------------------ bounds
\* longest instruction list of a container
MaxInstr == 2
\* largest flag number given to convert_flag
MaxFlag == 100
\* longest label table of a container
MaxLabels == 3

VARIABLES
    \* one instruction value and the calls made on it
    instruction,    \* the 8 bytes
    labels,         \* bmg.labels: the label table, a list of (bmg, index) pairs
    allBmgs,        \* BMG id -> messages, a message being the list of its lines
    pc,             \* "start"; "decoded": disassembleInstruction returned obj;
                    \* "disassembled": the class's disassemble returned obj;
                    \* "raised"; "edited": obj.scriptID was assigned
    obj,            \* the Instruction zeldaScripts.disassembleInstruction returned
    exc,            \* the exception it raised, "none" otherwise
    assembled,      \* what obj.assemble() last returned
    branch,         \* what obj.nameForBranch(i) last did
    rendered,       \* what disassembler.disassembleInstruction did
    things,         \* disassembler.things, the module-level set
    \* analyze() on one container
    instructions,   \* bmg.instructions
    scripts,        \* bmg.scripts: (scriptID, instIdx) pairs
    ownBmgID,       \* bmgID of analyze: the container's key in allBmgs
    apc,            \* position in analyze
    idx,            \* index of the instruction being decoded or rendered
    partial,        \* the list the comprehension of disassembleInstructions builds
    parsedList,     \* `instructions` of analyze: the list delivered, once delivered
    lines,          \* `lines` of analyze
    aexc,           \* the exception that left analyze, "none" otherwise
    hasFLW1,        \* b'FLW1' in rawData
    scriptsFile,    \* scripts/<filename>.txt
    messagesFile,   \* messages/<filename>.txt
    \* convert_flag
    eventNode,      \* the base address
    flag,           \* the flag number
    fpc,            \* "start", "done"
    ret,            \* the (address, bit) returned
    loops           \* how often the body of the while loop ran

\* ------------------------------------------------------- integer helpers
Max(a, b) == IF a >= b THEN a ELSE b

RECURSIVE OrNat(_, _)
\* Python's a | b on naturals
OrNat(a, b) ==
    IF a = 0 THEN b
    ELSE IF b = 0 THEN a
    ELSE (IF a % 2 = 1 \/ b % 2 = 1 THEN 1 ELSE 0) + 2 * OrNat(a \div 2, b \div 2)

\* digit i (1-based) of a Big, 0 beyond its length
BigDigit(v, i) == IF i <= Len(v) THEN v[i] ELSE 0

RECURSIVE BigNorm(_)
\* a Big without its leading (most significant) zero digits
BigNorm(v) ==
    IF Len(v) = 0 THEN v
    ELSE IF v[Len(v)] = 0 THEN BigNorm(SubSeq(v, 1, Len(v) - 1))
    ELSE v

\* a small natural as a Big
BigOfNat(n) == BigNorm(<<n % 256, (n \div 256) % 256, (n \div 65536) % 256, n \div 16777216>>)

\* v & 0xFFFF
BigAnd16(v) == BigNorm(<<BigDigit(v, 1), BigDigit(v, 2)>>)

\* v << 16
BigShl16(v) == BigNorm(<<0, 0>> \o v)

\* v >> 16
BigShr16(v) == IF Len(v) <= 2 THEN <<>> ELSE BigNorm(SubSeq(v, 3, Len(v)))

\* v >> 8
BigShr8(v) == IF Len(v) <= 1 THEN <<>> ELSE BigNorm(SubSeq(v, 2, Len(v)))

\* a | b
BigOr(a, b) ==
    BigNorm([i \in 1..Max(Len(a), Len(b)) |-> OrNat(BigDigit(a, i), BigDigit(b, i))])

RECURSIVE BigDouble(_, _)
\* 2 * v + carry, digit by digit
BigDouble(v, carry) ==
    IF Len(v) = 0 THEN (IF carry = 0 THEN <<>> ELSE <<carry>>)
    ELSE <<(2 * v[1] + carry) % 256>> \o BigDouble(Tail(v), (2 * v[1] + carry) \div 256)

RECURSIVE BigShl(_, _)
\* v << k
BigShl(v, k) == IF k = 0 THEN BigNorm(v) ELSE BigShl(BigDouble(v, 0), k - 1)

\* v > n for a natural n < 256
BigGtByte(v, n) == Len(BigNorm(v)) > 1 \/ BigDigit(v, 1) > n


RECURSIVE BigHalve(_, _)
\* <<v \div 2>> of the Big whose digits, most significant first, are `digits`,
\* given the carry from the digit above; the result is most significant first
BigHalve(digits, carry) ==
    IF Len(digits) = 0 THEN <<>>
    ELSE <<(carry * 256 + digits[1]) \div 2>>
            \o BigHalve(Tail(digits), (carry * 256 + digits[1]) % 2)

\* a sequence reversed
Reverse(s) == [i \in 1..Len(s) |-> s[Len(s) + 1 - i]]

RECURSIVE BigShr(_, _)
\* v >> k
BigShr(v, k) ==
    IF k = 0 THEN BigNorm(v) ELSE BigShr(Reverse(BigHalve(Reverse(v), 0)), k - 1)

RECURSIVE BigToNat(_)
\* the value of a Big below 2^31
BigToNat(v) == IF Len(v) = 0 THEN 0 ELSE v[1] + 256 * BigToNat(Tail(v))

RECURSIVE BigDivTen(_, _)
\* quotient digits (most significant first) of a Big given most significant first
BigDivTen(digits, carry) ==
    IF Len(digits) = 0 THEN <<>>
    ELSE <<(carry * 256 + digits[1]) \div 10>>
            \o BigDivTen(Tail(digits), (carry * 256 + digits[1]) % 10)

RECURSIVE BigModTen(_, _)
BigModTen(digits, carry) ==
    IF Len(digits) = 0 THEN carry
    ELSE BigModTen(Tail(digits), (carry * 256 + digits[1]) % 10)

RECURSIVE BigStr(_)
\* str(v) of a non-negative int
BigStr(v) ==
    IF Len(BigNorm(v)) = 0 THEN "0"
    ELSE IF Len(BigNorm(v)) = 1 /\ v[1] < 10 THEN ToString(v[1])
    ELSE BigStr(BigNorm(Reverse(BigDivTen(Reverse(BigNorm(v)), 0))))
            \o ToString(BigModTen(Reverse(BigNorm(v)), 0))

HexDigit(d) == <<"0", "1", "2", "3", "4", "5", "6", "7", "8", "9",
                 "a", "b", "c", "d", "e", "f">>[d + 1]

RECURSIVE HexDigits(_)
HexDigits(n) == IF n < 16 THEN HexDigit(n) ELSE HexDigits(n \div 16) \o HexDigit(n % 16)

\* hex(n)
hex(n) == IF n < 0 THEN "-0x" \o HexDigits(-n) ELSE "0x" \o HexDigits(n)

RECURSIVE Join(_, _)
\* sep.join(strings)
Join(sep, strings) ==
    IF Len(strings) = 0 THEN ""
    ELSE IF Len(strings) = 1 THEN strings[1]
    ELSE strings[1] \o sep \o Join(sep, Tail(strings))

RECURSIVE PadTo(_, _)
\* while len(line) < n: line += ' '
PadTo(line, n) == IF Len(line) < n THEN PadTo(line \o " ", n) ELSE line

\* ------------------------------------------------------------- struct
\* struct.unpack: 'B' and 'H' unsigned, 'b' and 'h' two's complement, 'I' u32
unpack_B(b) == b
unpack_H(lo, hi) == lo + 256 * hi
unpack_h(lo, hi) == IF lo + 256 * hi >= 32768 THEN lo + 256 * hi - 65536 ELSE lo + 256 * hi
unpack_b(b) == IF b >= 128 THEN b - 256 ELSE b
unpack_I(b0, b1, b2, b3) == BigNorm(<<b0, b1, b2, b3>>)

\* struct.pack range checks (struct.error outside the range)
fits_B(v) == v \in 0..255
fits_H(v) == v \in 0..65535
fits_h(v) == v \in -32768..32767
fits_b(v) == v \in -128..127
fits_I(v) == Len(BigNorm(v)) <= 4

pack_B(v) == <<v>>
pack_H(v) == <<v % 256, v \div 256>>
pack_h(v) == IF v < 0 THEN pack_H(v + 65536) ELSE pack_H(v)
pack_b(v) == IF v < 0 THEN <<v + 256>> ELSE <<v>>
pack_I(v) == <<BigDigit(v, 1), BigDigit(v, 2), BigDigit(v, 3), BigDigit(v, 4)>>

\* ------------------------------------------------------------- Label
Label(bmg, index) == [bmg |-> bmg, index |-> index]

isNull(l) == l.index = -1 /\ l.bmg = -1

\* --------------------------------------------------- SayInstruction (1)
\* bytestring '<BBHhbb': type, bmgID, messageID, gotoIndex, gotoBmg, extraData
SayInstruction_disassemble(w) ==
    [type |-> "SAY",
     messageBMG |-> unpack_B(w[2]),
     messageID |-> unpack_H(w[3], w[4]),
     nextLabel |-> Label(unpack_b(w[7]), unpack_h(w[5], w[6])),
     extraData |-> unpack_b(w[8])]

SayInstruction_canAssemble(o) ==
    /\ fits_B(o.messageBMG) /\ fits_H(o.messageID)
    /\ fits_h(o.nextLabel.index) /\ fits_b(o.nextLabel.bmg) /\ fits_b(o.extraData)

SayInstruction_assemble(o) ==
    pack_B(1) \o pack_B(o.messageBMG) \o pack_H(o.messageID)
        \o pack_h(o.nextLabel.index) \o pack_b(o.nextLabel.bmg) \o pack_b(o.extraData)

\* ------------------------------------------------ SwitchInstruction (2)
\* the subclass table of SwitchInstruction.disassemble, by the class's type
SwitchSubclass(condition) ==
    CASE condition = 1 -> "SW_RESP_2"
      [] condition = 2 -> "SW_RESP_3"
      [] condition = 3 -> "SW_RESP_4"
      [] condition = 4 -> "SW_P_FLAG"
      [] condition = 6 -> "SW_T_FLAG"
      [] condition = 8 -> "SW_T2_FLAG"
      [] condition = 27 -> "SW_SHOP"
      [] OTHER -> "SW"

\* the classes that derive from _SwitchInstruction_NoParameter
NoParameter(type) == type \in {"SW_RESP_2", "SW_RESP_3", "SW_RESP_4"}

\* obj.parameter = value: the NoParameter setter is `pass`
Switch_setParameter(o, value) ==
    IF NoParameter(o.type) THEN o
    ELSE [type |-> o.type, condition |-> o.condition, firstLabel |-> o.firstLabel,
          numLabels |-> o.numLabels, parameter |-> value]

\* obj.parameter: the NoParameter getter returns 0
Switch_parameter(o) == IF NoParameter(o.type) THEN 0 ELSE o.parameter

\* .flag is an alias for .parameter (the three flag checks)
Switch_flag(o) == Switch_parameter(o)

\* bytestring '<BBHHH': type, numLabels, condition, parameter, firstLabel
SwitchInstruction_disassemble(w) ==
    Switch_setParameter(
        [type |-> SwitchSubclass(unpack_H(w[3], w[4])),
         condition |-> unpack_H(w[3], w[4]),
         firstLabel |-> unpack_H(w[7], w[8]),
         numLabels |-> unpack_B(w[2])],
        unpack_H(w[5], w[6]))

SwitchInstruction_canAssemble(o) ==
    /\ fits_B(o.numLabels) /\ fits_H(o.condition)
    /\ fits_H(Switch_parameter(o)) /\ fits_H(o.firstLabel)

SwitchInstruction_assemble(o) ==
    pack_B(2) \o pack_B(o.numLabels) \o pack_H(o.condition)
        \o pack_H(Switch_parameter(o)) \o pack_H(o.firstLabel)

\* the list each subclass's nameForBranch indexes; the base class returns str(i)
BranchNames(type) ==
    CASE type = "SW_RESP_2" -> <<"(first response)", "(second response)">>
      [] type = "SW_RESP_3" ->
            <<"(first response)", "(second response)", "(third response)">>
      [] type = "SW_RESP_4" ->
            <<"(first response)", "(second response)", "(third response)",
              "(fourth response)">>
      [] type \in {"SW_P_FLAG", "SW_T_FLAG", "SW_T2_FLAG"} -> <<"true", "false">>
      [] type = "SW_SHOP" ->
            <<"Castle Town Shop", "Forest's General Store", "Anouki General Store",
              "Papuchia Shop", "Goron Country Store">>

\* str(i) for the ordinals a u8 numLabels allows
Decimal(i) == ToString(i)

\* nameForBranch(i): a list index, IndexError outside the list (Python counts a
\* negative i from the end)
nameForBranch(o, i) ==
    IF o.type = "SW" THEN [exc |-> "none", name |-> Decimal(i)]
    ELSE LET names == BranchNames(o.type)
             k == IF i < 0 THEN i + Len(names) ELSE i
         IN  IF k \in 0..(Len(names) - 1)
             THEN [exc |-> "none", name |-> names[k + 1]]
             ELSE [exc |-> "IndexError", name |-> ""]

\* ---------------------------------------------------- DoInstruction (3)
\* the subclass table with the launch-script entry one action too low
DoSubclass_shifted(action) ==
    CASE action = 0 -> "DO_SET_P_FLAG"
      [] action = 1 -> "DO_CLR_P_FLAG"
      [] action = 2 -> "DO_SET_T2_FLAG"
      [] action = 3 -> "DO_CLR_T2_FLAG"
      [] action = 4 -> "DO_SET_T_FLAG"
      [] action = 5 -> "DO_CLR_T_FLAG"
      [] action = 6 -> "DO_SCRPT"
      [] OTHER -> "DO"

DoSubclass(action) ==
    CASE action = 0 -> "DO_SET_P_FLAG"
      [] action = 1 -> "DO_CLR_P_FLAG"
      [] action = 2 -> "DO_SET_T2_FLAG"
      [] action = 3 -> "DO_CLR_T2_FLAG"
      [] action = 4 -> "DO_SET_T_FLAG"
      [] action = 5 -> "DO_CLR_T_FLAG"
      [] action = 7 -> "DO_SCRPT"
      [] OTHER -> "DO"

\* the swap with the high half shifted down by 8 bits only
SwapHalves_shift8(v) == BigOr(BigShl16(BigAnd16(v)), BigShr8(v))

\* the halves swap of DoLaunchScriptInstruction's parameter property, on any int
SwapHalves(v) == BigOr(BigShl16(BigAnd16(v)), BigShr16(v))

\* obj.parameter = value: DoLaunchScriptInstruction stores scriptID instead
Do_setParameter(o, value) ==
    IF o.type = "DO_SCRPT"
    THEN [type |-> o.type, action |-> o.action, labelNumber |-> o.labelNumber,
          scriptID |-> SwapHalves(value)]
    ELSE [type |-> o.type, action |-> o.action, labelNumber |-> o.labelNumber,
          parameter |-> value]

\* obj.parameter
Do_parameter(o) == IF o.type = "DO_SCRPT" THEN SwapHalves(o.scriptID) ELSE o.parameter

\* .flag is an alias for .parameter (the six flag set/clear classes)
Do_flag(o) == Do_parameter(o)

\* bytestring '<BBhI': type, action, labelNumber, parameter
DoInstruction_disassemble(w) ==
    Do_setParameter(
        [type |-> DoSubclass(unpack_B(w[2])),
         action |-> unpack_B(w[2]),
         labelNumber |-> unpack_h(w[3], w[4])],
        unpack_I(w[5], w[6], w[7], w[8]))

DoInstruction_canAssemble(o) ==
    fits_B(o.action) /\ fits_h(o.labelNumber) /\ fits_I(Do_parameter(o))

DoInstruction_assemble(o) ==
    pack_B(3) \o pack_B(o.action) \o pack_h(o.labelNumber) \o pack_I(Do_parameter(o))

\* ------------------------------------------------------ module functions
SayTypes == {"SAY"}
SwitchTypes ==
    {"SW", "SW_RESP_2", "SW_RESP_3", "SW_RESP_4", "SW_P_FLAG", "SW_T_FLAG",
     "SW_T2_FLAG", "SW_SHOP"}
DoFlagTypes ==
    {"DO_SET_P_FLAG", "DO_CLR_P_FLAG", "DO_SET_T2_FLAG", "DO_CLR_T2_FLAG",
     "DO_SET_T_FLAG", "DO_CLR_T_FLAG"}
DoTypes == DoFlagTypes \cup {"DO", "DO_SCRPT"}

\* instruction.assemble(), dispatched on the object's class
canAssemble(o) ==
    CASE o.type \in SayTypes -> SayInstruction_canAssemble(o)
      [] o.type \in SwitchTypes -> SwitchInstruction_canAssemble(o)
      [] o.type \in DoTypes -> DoInstruction_canAssemble(o)

assemble(o) ==
    CASE o.type \in SayTypes -> SayInstruction_assemble(o)
      [] o.type \in SwitchTypes -> SwitchInstruction_assemble(o)
      [] o.type \in DoTypes -> DoInstruction_assemble(o)

\* the class method the opcode selects
disassemble(w) ==
    CASE w[1] = 1 -> SayInstruction_disassemble(w)
      [] w[1] = 2 -> SwitchInstruction_disassemble(w)
      [] w[1] = 3 -> DoInstruction_disassemble(w)

NoObject == [type |-> "None"]

\* disassembleInstruction without its check of the type byte: an unknown type is
\* handed on as an empty object
disassembleInstruction_noTypeCheck(w) ==
    IF w[1] \notin {1, 2, 3} THEN [exc |-> "none", obj |-> NoObject]
    ELSE IF ~canAssemble(disassemble(w)) THEN [exc |-> "struct.error", obj |-> NoObject]
    ELSE IF assemble(disassemble(w)) # w THEN [exc |-> "AssertionError", obj |-> NoObject]
    ELSE [exc |-> "none", obj |-> disassemble(w)]

\* zeldaScripts.disassembleInstruction: ValueError on an unknown type, and the
\* "double check that this works in reverse" assertion
disassembleInstruction(w) ==
    IF w[1] \notin {1, 2, 3} THEN [exc |-> "ValueError", obj |-> NoObject]
    ELSE IF ~canAssemble(disassemble(w)) THEN [exc |-> "struct.error", obj |-> NoObject]
    ELSE IF assemble(disassemble(w)) # w THEN [exc |-> "AssertionError", obj |-> NoObject]
    ELSE [exc |-> "none", obj |-> disassemble(w)]

\* ============================================================ disassembler.py
RECURSIVE convert_flag_loop_ge(_, _, _)
\* the loop with the test flag_bit >= 0x80
convert_flag_loop_ge(flag_offset_from_base, flag_bit, n) ==
    IF BigGtByte(flag_bit, 127)
    THEN convert_flag_loop_ge(flag_offset_from_base + 1, BigShr8(flag_bit), n + 1)
    ELSE [offset |-> flag_offset_from_base, bit |-> BigToNat(flag_bit), iterations |-> n]

RECURSIVE convert_flag_loop(_, _, _)
\* while flag_bit > 0x80: flag_bit >>= 8; flag_offset_from_base += 1
convert_flag_loop(flag_offset_from_base, flag_bit, n) ==
    IF BigGtByte(flag_bit, 128)
    THEN convert_flag_loop(flag_offset_from_base + 1, BigShr8(flag_bit), n + 1)
    ELSE [offset |-> flag_offset_from_base, bit |-> BigToNat(flag_bit), iterations |-> n]

\* the loop entered with the bit taken from flag & 0x0F
convert_flag_run_mask15(flagNo) ==
    convert_flag_loop(BigToNat(BigShr(flagNo, 5)) * 4,
                      BigShl(<<1>>, BigDigit(flagNo, 1) % 16), 0)

\* the loop of convert_flag entered with (flag >> 5) * 4 and 1 << (flag & 0x1F)
convert_flag_run(flagNo) ==
    convert_flag_loop(BigToNat(BigShr(flagNo, 5)) * 4,
                      BigShl(<<1>>, BigDigit(flagNo, 1) % 32), 0)

\* convert_flag(eventNode, flag) -> (eventNode + flag_offset_from_base, flag_bit)
convert_flag(node, flagNo) ==
    <<node + convert_flag_run(flagNo).offset, convert_flag_run(flagNo).bit>>

\* f'B{gotoBmg}_L{gotoIndex}'
LabelName(gotoBmg, gotoIndex) == "B" \o ToString(gotoBmg) \o "_L" \o ToString(gotoIndex)

\* what a parser function hands back: an exception, or (name, comment, *args)
Parsed(name, comment, args) ==
    [exc |-> "none", name |-> name, comment |-> comment, args |-> args,
     gotoLabels |-> <<>>, reads |-> <<>>, added |-> {}]

Failed(e, reads, gotoLabels, added) ==
    [exc |-> e, name |-> "", comment |-> "", args |-> <<>>,
     gotoLabels |-> gotoLabels, reads |-> reads, added |-> added]

\* the goto operand without the END case
SayGotoName_noEnd(gotoBmg, gotoIndex) == LabelName(gotoBmg, gotoIndex)

\* the goto operand of a SAY: END when either field is its all-ones pattern
SayGotoName(gotoBmg, gotoIndex) ==
    IF gotoBmg = -1 \/ gotoIndex = -1 THEN "END" ELSE LabelName(gotoBmg, gotoIndex)

\* disassembleInstructionType1(inst, bmg, allBmgs); bmgs (allBmgs) maps a BMG id to its
\* messages, a message being the sequence of its lines
disassembleInstructionType1(w, table, bmgs) ==
    LET bmgID == w[2]
        messageID == unpack_H(w[3], w[4])
        gotoIndex == IF unpack_H(w[5], w[6]) = 65535 THEN -1 ELSE unpack_H(w[5], w[6])
        gotoBmg == IF w[7] = 255 THEN -1 ELSE w[7]
    IN  IF bmgID \notin DOMAIN bmgs THEN Failed("KeyError", <<>>, <<>>, {})
        ELSE IF messageID >= Len(bmgs[bmgID]) THEN Failed("IndexError", <<>>, <<>>, {})
        ELSE Parsed("SAY",
                    "\"" \o Join(" ", bmgs[bmgID][messageID + 1]) \o "\"",
                    <<"msg=" \o ToString(bmgID) \o "/" \o ToString(messageID),
                      "goto=" \o SayGotoName(gotoBmg, gotoIndex)>>)

\* disassembleInstructionType2_1 / _4 / defaultParser: (name, None, *args)
SwitchFormattedCmd(whatToCheckFor, param) ==
    CASE whatToCheckFor = 1 ->
            IF param = 0 THEN Parsed("SW_RESP", "", <<>>)
            ELSE Failed("AssertionError", <<>>, <<>>, {})
      [] whatToCheckFor = 4 ->
            Parsed("SW_FLAG", "",
                   <<"index=" \o ToString(param \div 32), "bit=" \o ToString(param % 32)>>)
      [] OTHER ->
            Parsed("SWITCH" \o ToString(whatToCheckFor), "", <<"param=" \o ToString(param)>>)

RECURSIVE GotoLoop_offByOne(_, _, _, _, _)
\* the loop reading the slot after the one it should
GotoLoop_offByOne(table, i, stop, gotoLabels, reads) ==
    IF i >= stop THEN [exc |-> "none", gotoLabels |-> gotoLabels, reads |-> reads]
    ELSE IF i + 1 >= Len(table)
    THEN [exc |-> "IndexError", gotoLabels |-> gotoLabels, reads |-> reads]
    ELSE GotoLoop_offByOne(table, i + 1, stop,
                  Append(gotoLabels, LabelName(table[i + 2][1], table[i + 2][2])),
                  Append(reads, i + 1))

RECURSIVE GotoLoop(_, _, _, _, _)
\* for i in range(baseLabelNumber, baseLabelNumber + labelCount):
\*     gotoBmg, gotoIndex = bmg.labels[i]; gotoLabels.append(...)
GotoLoop(table, i, stop, gotoLabels, reads) ==
    IF i >= stop THEN [exc |-> "none", gotoLabels |-> gotoLabels, reads |-> reads]
    ELSE IF i >= Len(table)
    THEN [exc |-> "IndexError", gotoLabels |-> gotoLabels, reads |-> reads]
    ELSE GotoLoop(table, i + 1, stop,
                  Append(gotoLabels, LabelName(table[i + 1][1], table[i + 1][2])),
                  Append(reads, i))

\* disassembleInstructionType2(inst, bmg, allBmgs)
disassembleInstructionType2(w, table, bmgs) ==
    LET labelCount == w[2]
        whatToCheckFor == unpack_H(w[3], w[4])
        parameter == unpack_H(w[5], w[6])
        baseLabelNumber == unpack_H(w[7], w[8])
        formattedCmd == SwitchFormattedCmd(whatToCheckFor, parameter)
        loop == GotoLoop(table, baseLabelNumber, baseLabelNumber + labelCount, <<>>, <<>>)
    IN  IF formattedCmd.exc # "none" THEN formattedCmd
        ELSE IF loop.exc # "none" THEN Failed(loop.exc, loop.reads, loop.gotoLabels, {})
        ELSE [formattedCmd EXCEPT
                !.args = Append(@, "goto=[" \o Join(", ", loop.gotoLabels) \o "]"),
                !.gotoLabels = loop.gotoLabels,
                !.reads = loop.reads]

\* disassembleInstructionType3(inst, bmg, allBmgs); things.add(unk01) comes first
disassembleInstructionType3(w, table, bmgs) ==
    LET unk01 == w[2]
        labelNumber == unpack_H(w[3], w[4])
        unk04 == unpack_I(w[5], w[6], w[7], w[8])
    IN  IF labelNumber >= Len(table) THEN Failed("IndexError", <<>>, <<>>, {unk01})
        ELSE [Parsed("DO", "",
                     <<ToString(unk01), BigStr(unk04),
                       "goto=" \o LabelName(table[labelNumber + 1][1],
                                            table[labelNumber + 1][2])>>)
                EXCEPT !.reads = <<labelNumber>>, !.added = {unk01}]

\* the parser function of disassembler.disassembleInstruction, by instID
parserFunc(w, table, bmgs) ==
    CASE w[1] = 1 -> disassembleInstructionType1(w, table, bmgs)
      [] w[1] = 2 -> disassembleInstructionType2(w, table, bmgs)
      [] w[1] = 3 -> disassembleInstructionType3(w, table, bmgs)
      [] OTHER -> Failed("ValueError", <<>>, <<>>, {})

\* the line disassembler.disassembleInstruction builds from (name, comment, *args)
FormatLine(t) ==
    LET body == PadTo(t.name \o " ", 8) \o Join(", ", t.args) \o " "
    IN  IF t.comment # "" THEN PadTo(body, 36) \o "# " \o t.comment ELSE body

\* disassembler.disassembleInstruction(inst, bmg, allBmgs)
disassembler_disassembleInstruction(w, table, bmgs) ==
    LET t == parserFunc(w, table, bmgs)
    IN  [exc |-> t.exc,
         line |-> IF t.exc = "none" THEN FormatLine(t) ELSE "",
         args |-> t.args, gotoLabels |-> t.gotoLabels, reads |-> t.reads,
         added |-> t.added]

\* ===================================================================== inputs
vars == <<instruction, labels, allBmgs, pc, obj, exc, assembled, branch, rendered,
          things, instructions, scripts, ownBmgID, apc, idx, partial, parsedList, lines,
          aexc, hasFLW1, scriptsFile, messagesFile, eventNode, flag, fpc, ret, loops>>

codecVars == <<instruction, labels, allBmgs, pc, obj, exc, assembled, branch, rendered>>
analyzeVars == <<instructions, scripts, ownBmgID, apc, idx, partial, parsedList, lines, aexc,
                 hasFLW1, scriptsFile, messagesFile>>
flagVars == <<eventNode, flag, fpc, ret, loops>>

U16Values == {<<0, 0>>, <<2, 0>>, <<255, 127>>, <<0, 128>>, <<254, 255>>, <<255, 255>>}

SayWords ==
    {<<1, c, m[1], m[2], g[1], g[2], b, e>> :
        c \in {0, 7}, m \in {<<5, 0>>, <<0, 1>>}, g \in U16Values,
        b \in {0, 3, 127, 128, 255}, e \in {0, 128, 255}}

SwitchWords ==
    {<<2, n, c[1], c[2], p[1], p[2], f[1], f[2]>> :
        n \in {0, 1, 2, 3, 5, 6},
        c \in {<<0, 0>>, <<1, 0>>, <<2, 0>>, <<3, 0>>, <<4, 0>>, <<5, 0>>, <<6, 0>>,
               <<8, 0>>, <<27, 0>>, <<99, 0>>, <<4, 1>>},
        p \in {<<0, 0>>, <<17, 0>>, <<255, 255>>},
        f \in {<<0, 0>>, <<1, 0>>, <<3, 0>>, <<0, 1>>}}

U32Values ==
    {<<0, 0, 0, 0>>, <<100, 0, 0, 0>>, <<1, 0, 2, 0>>, <<52, 18, 120, 86>>,
     <<0, 0, 0, 128>>, <<255, 255, 255, 255>>}

DoWords ==
    {<<3, a, l[1], l[2], p[1], p[2], p[3], p[4]>> :
        a \in {0, 1, 2, 3, 4, 5, 6, 7, 9, 255},
        l \in {<<0, 0>>, <<1, 0>>, <<0, 128>>, <<255, 255>>},
        p \in U32Values}

BadWords ==
    {<<t, 1, 5, 0, p[1], p[2], p[3], p[4]>> :
        t \in {0, 4, 255}, p \in {<<0, 0, 0, 0>>, <<255, 255, 255, 255>>}}

Words == SayWords \cup SwitchWords \cup DoWords \cup BadWords

\* label tables: slot k holds the sentinel or a pair of non-negative numbers
LabelAt(k) == IF k % 3 = 1 THEN <<-1, -1>> ELSE <<k % 2, k + 2>>

LabelTables == {[i \in 1..n |-> LabelAt(i - 1 + s)] : n \in 0..MaxLabels, s \in {0, 1}}

Messages6 ==
    << <<"a">>, <<"b">>, <<"c">>, <<"d">>, <<"e">>, <<"Hello", "world">> >>

AllBmgsChoices == {(0 :> Messages6), (0 :> << <<"a">> >>) @@ (7 :> Messages6)}

ScriptIDs == U32Values

NotCalled == [exc |-> "not called"]

\* a file that was not written, and a file holding the given lines
NoFile == [written |-> FALSE, lines |-> <<>>]
File(ls) == [written |-> TRUE, lines |-> ls]

\* `instructions` of analyze before and after disassembleInstructions returned
NotDelivered == [delivered |-> FALSE, list |-> <<>>]
Delivered(list) == [delivered |-> TRUE, list |-> list]

\* the variables of analyze() and convert_flag while neither runs
AnalyzeIdle ==
    /\ instructions = <<>> /\ scripts = <<>> /\ ownBmgID = 0 /\ apc = "idle" /\ idx = 0
    /\ partial = <<>> /\ parsedList = NotDelivered /\ lines = <<>> /\ aexc = "none"
    /\ hasFLW1 = FALSE /\ scriptsFile = NoFile /\ messagesFile = NoFile

FlagIdle == eventNode = 0 /\ flag = <<>> /\ fpc = "idle" /\ ret = <<>> /\ loops = 0

CodecIdle ==
    /\ instruction = <<>> /\ pc = "idle" /\ obj = NoObject /\ exc = "none"
    /\ assembled = <<>> /\ branch = NotCalled /\ rendered = NotCalled

\* ================================================== calls on one instruction
Init ==
    /\ instruction \in Words
    /\ labels \in LabelTables
    /\ allBmgs \in AllBmgsChoices
    /\ pc = "start" /\ obj = NoObject /\ exc = "none"
    /\ assembled = <<>> /\ branch = NotCalled /\ rendered = NotCalled
    /\ things = {}
    /\ AnalyzeIdle /\ FlagIdle

\* zeldaScripts.disassembleInstruction(instruction)
DisassembleInstruction ==
    /\ pc = "start"
    /\ obj' = disassembleInstruction(instruction).obj
    /\ exc' = disassembleInstruction(instruction).exc
    /\ pc' = IF disassembleInstruction(instruction).exc = "none" THEN "decoded" ELSE "raised"
    /\ UNCHANGED <<instruction, labels, allBmgs, assembled, branch, rendered, things>>
    /\ UNCHANGED analyzeVars /\ UNCHANGED flagVars

\* cls.disassemble(instruction) of the class the type byte names, called directly
ClassDisassemble ==
    /\ pc = "start"
    /\ instruction[1] \in {1, 2, 3}
    /\ obj' = disassemble(instruction)
    /\ pc' = "disassembled"
    /\ UNCHANGED <<instruction, labels, allBmgs, exc, assembled, branch, rendered, things>>
    /\ UNCHANGED analyzeVars /\ UNCHANGED flagVars

\* obj.assemble()
Assemble ==
    /\ pc \in {"decoded", "disassembled", "edited"}
    /\ canAssemble(obj)
    /\ assembled' = assemble(obj)
    /\ UNCHANGED <<instruction, labels, allBmgs, pc, obj, exc, branch, rendered, things>>
    /\ UNCHANGED analyzeVars /\ UNCHANGED flagVars

\* obj.nameForBranch(i) for a branch ordinal of a Switch instruction
NameForBranch ==
    /\ pc \in {"decoded", "disassembled"}
    /\ obj.type \in SwitchTypes
    /\ \E i \in 0..(obj.numLabels - 1) :
          branch' = [i |-> i, exc |-> nameForBranch(obj, i).exc,
                     name |-> nameForBranch(obj, i).name]
    /\ UNCHANGED <<instruction, labels, allBmgs, pc, obj, exc, assembled, rendered, things>>
    /\ UNCHANGED analyzeVars /\ UNCHANGED flagVars

\* obj.scriptID = s on a DoLaunchScriptInstruction
SetScriptID ==
    /\ pc \in {"decoded", "disassembled"}
    /\ obj.type = "DO_SCRPT"
    /\ \E s \in ScriptIDs : obj' = [obj EXCEPT !.scriptID = BigNorm(s)]
    /\ pc' = "edited"
    /\ assembled' = <<>>
    /\ UNCHANGED <<instruction, labels, allBmgs, exc, branch, rendered, things>>
    /\ UNCHANGED analyzeVars /\ UNCHANGED flagVars

\* disassembler.disassembleInstruction(instruction, bmg, allBmgs)
Render ==
    /\ pc # "idle"
    /\ rendered = NotCalled
    /\ rendered' = disassembler_disassembleInstruction(instruction, labels, allBmgs)
    /\ things' = things \cup disassembler_disassembleInstruction(instruction, labels, allBmgs).added
    /\ UNCHANGED <<instruction, labels, allBmgs, pc, obj, exc, assembled, branch>>
    /\ UNCHANGED analyzeVars /\ UNCHANGED flagVars

Next == DisassembleInstruction \/ ClassDisassemble \/ Assemble \/ NameForBranch \/ SetScriptID \/ Render

Spec == Init /\ [][Next]_vars

\* ======================================================= analyze(container)
\* the instruction values the containers are made of
SeqWords ==
    {<<1, 0, 5, 0, 255, 255, 255, 255>>,   \* SAY, goto END
     <<1, 0, 5, 0, 2, 0, 0, 0>>,           \* SAY, goto B0_L2
     <<2, 2, 4, 0, 17, 0, 0, 0>>,          \* SW_P_FLAG, labels 0..1
     <<2, 2, 4, 0, 17, 0, 2, 0>>,          \* SW_P_FLAG, labels 2..3
     <<2, 2, 1, 0, 5, 0, 0, 0>>,           \* SW_RESP_2 with a parameter
     <<3, 0, 0, 0, 100, 0, 0, 0>>,         \* DO_SET_P_FLAG 100, label 0
     <<3, 9, 9, 0, 1, 0, 0, 0>>,           \* DO 9, label 9
     <<3, 7, 1, 0, 1, 0, 2, 0>>,           \* DO_SCRPT, label 1
     <<0, 0, 0, 0, 0, 0, 0, 0>>,           \* no instruction type
     <<4, 0, 5, 0, 255, 255, 255, 255>>}

RECURSIVE SeqsUpTo(_, _)
\* the sequences over S of length at most n
SeqsUpTo(S, n) ==
    IF n = 0 THEN {<<>>}
    ELSE SeqsUpTo(S, n - 1) \cup {Append(q, x) : q \in {t \in SeqsUpTo(S, n - 1) : Len(t) = n - 1}, x \in S}

ScriptTables == {<<>>, << <<65538, 0>>, <<3, 1>>, <<196612, 0>> >>}

\* the base address analyze passes to convert_flag
FlagBase == 35345724

InitAnalyze ==
    /\ instructions \in SeqsUpTo(SeqWords, MaxInstr)
    /\ labels \in {[i \in 1..n |-> LabelAt(i - 1)] : n \in {0, MaxLabels}}
    /\ allBmgs \in AllBmgsChoices
    /\ ownBmgID \in DOMAIN allBmgs
    /\ scripts \in ScriptTables
    /\ hasFLW1 \in BOOLEAN
    /\ apc = "start" /\ idx = 0 /\ partial = <<>> /\ parsedList = NotDelivered
    /\ lines = <<>> /\ aexc = "none" /\ scriptsFile = NoFile /\ messagesFile = NoFile
    /\ things = {}
    /\ CodecIdle /\ FlagIdle

\* if b'FLW1' not in rawData: print(...); return
AnalyzeNoScripts ==
    /\ apc = "start" /\ ~hasFLW1
    /\ apc' = "done"
    /\ UNCHANGED <<instructions, scripts, ownBmgID, idx, partial, parsedList, lines, aexc,
                   hasFLW1, scriptsFile, messagesFile, things>>
    /\ UNCHANGED codecVars /\ UNCHANGED flagVars

\* analyze up to the call of zeldaScripts.disassembleInstructions
AnalyzeBegin ==
    /\ apc = "start" /\ hasFLW1
    /\ apc' = "decode" /\ idx' = 0 /\ partial' = <<>> /\ lines' = <<>>
    /\ UNCHANGED <<instructions, scripts, ownBmgID, parsedList, aexc, hasFLW1, scriptsFile,
                   messagesFile, things>>
    /\ UNCHANGED codecVars /\ UNCHANGED flagVars

\* one element of [disassembleInstruction(inst) for inst in instructions]; an
\* exception leaves the comprehension, disassembleInstructions and analyze
DecodeNext ==
    /\ apc = "decode" /\ idx < Len(instructions)
    /\ LET r == disassembleInstruction(instructions[idx + 1])
       IN  IF r.exc = "none"
           THEN /\ partial' = Append(partial, r.obj)
                /\ idx' = idx + 1
                /\ UNCHANGED <<apc, aexc>>
           ELSE /\ apc' = "raised"
                /\ aexc' = r.exc
                /\ UNCHANGED <<partial, idx>>
    /\ UNCHANGED <<instructions, scripts, ownBmgID, parsedList, lines, hasFLW1, scriptsFile,
                   messagesFile, things>>
    /\ UNCHANGED codecVars /\ UNCHANGED flagVars

\* disassembleInstructions returns the list; analyze goes on to its loop
DecodeReturn ==
    /\ apc = "decode" /\ idx = Len(instructions)
    /\ parsedList' = Delivered(partial)
    /\ apc' = "render" /\ idx' = 0
    /\ UNCHANGED <<instructions, scripts, ownBmgID, partial, lines, aexc, hasFLW1,
                   scriptsFile, messagesFile, things>>
    /\ UNCHANGED codecVars /\ UNCHANGED flagVars

\* '#  DO_SET_P_FLAG - sets flag @ ..., bit ...' ahead of a DO_SET_P_FLAG
FlagComment(parsed_inst) ==
    IF parsed_inst.type = "DO_SET_P_FLAG"
    THEN <<"#  " \o parsed_inst.type \o " - sets flag @ "
            \o hex(convert_flag(FlagBase, Do_parameter(parsed_inst))[1]) \o ", bit "
            \o hex(convert_flag(FlagBase, Do_parameter(parsed_inst))[2])>>
    ELSE <<>>

RECURSIVE ScriptNames(_, _)
\* 'S{scriptID >> 16}_{scriptID & 0xFFFF}:' for each script entered at instruction i
ScriptNames(entries, i) ==
    IF Len(entries) = 0 THEN <<>>
    ELSE (IF entries[1][2] = i
          THEN <<"S" \o ToString(entries[1][1] \div 65536) \o "_"
                  \o ToString(entries[1][1] % 65536) \o ":">>
          ELSE <<>>) \o ScriptNames(Tail(entries), i)

\* f'B{bmgID}_L{i}: '.ljust(12, ' ')
LinePrefix(id, i) == PadTo("B" \o ToString(id) \o "_L" \o ToString(i) \o ": ", 12)

\* one pass of the loop over zip(bmg.instructions, instructions)
RenderNext ==
    /\ apc = "render" /\ idx < Len(instructions)
    /\ LET r == disassembler_disassembleInstruction(instructions[idx + 1], labels, allBmgs)
           before == lines \o FlagComment(parsedList.list[idx + 1]) \o ScriptNames(scripts, idx)
       IN  /\ things' = things \cup r.added
           /\ IF r.exc = "none"
              THEN /\ lines' = Append(before, LinePrefix(ownBmgID, idx) \o r.line)
                   /\ idx' = idx + 1
                   /\ UNCHANGED <<apc, aexc>>
              ELSE /\ lines' = before
                   /\ apc' = "raised"
                   /\ aexc' = r.exc
                   /\ UNCHANGED idx
    /\ UNCHANGED <<instructions, scripts, ownBmgID, partial, parsedList, hasFLW1, scriptsFile,
                   messagesFile>>
    /\ UNCHANGED codecVars /\ UNCHANGED flagVars

\* if lines: write scripts/<filename>.txt
WriteScripts ==
    /\ apc = "render" /\ idx = Len(instructions)
    /\ scriptsFile' = IF lines # <<>> THEN File(lines) ELSE scriptsFile
    /\ apc' = "messages"
    /\ UNCHANGED <<instructions, scripts, ownBmgID, idx, partial, parsedList, lines, aexc,
                   hasFLW1, messagesFile, things>>
    /\ UNCHANGED codecVars /\ UNCHANGED flagVars

RECURSIVE MessageLines(_, _)
\* f'{i}:', str(msg), '--------' * 4 for each message
MessageLines(messages, i) ==
    IF Len(messages) = 0 THEN <<>>
    ELSE <<ToString(i) \o ":", Join("\n", messages[1]), "--------------------------------">>
            \o MessageLines(Tail(messages), i + 1)

\* the messages listing; del lines[-1] fails on an empty list
WriteMessages ==
    /\ apc = "messages"
    /\ LET ls == MessageLines(allBmgs[ownBmgID], 0)
       IN  IF Len(ls) = 0
           THEN /\ apc' = "raised" /\ aexc' = "IndexError"
                /\ UNCHANGED <<lines, messagesFile>>
           ELSE /\ lines' = SubSeq(ls, 1, Len(ls) - 1)
                /\ messagesFile' = File(SubSeq(ls, 1, Len(ls) - 1))
                /\ apc' = "done"
                /\ UNCHANGED aexc
    /\ UNCHANGED <<instructions, scripts, ownBmgID, idx, partial, parsedList, hasFLW1,
                   scriptsFile, things>>
    /\ UNCHANGED codecVars /\ UNCHANGED flagVars

NextAnalyze ==
    \/ AnalyzeNoScripts \/ AnalyzeBegin \/ DecodeNext \/ DecodeReturn
    \/ RenderNext \/ WriteScripts \/ WriteMessages

SpecAnalyze == InitAnalyze /\ [][NextAnalyze]_vars

\* ============================================================= convert_flag
FlagNumbers ==
    {BigOfNat(n) : n \in 0..MaxFlag}
        \cup {<<255, 255, 255, 255>>, <<31, 0, 0, 128>>, <<224, 255, 0, 0>>}

InitFlag ==
    /\ eventNode \in {0, FlagBase, -8}
    /\ flag \in FlagNumbers
    /\ fpc = "start" /\ ret = <<>> /\ loops = 0
    /\ things = {} /\ labels = <<>> /\ allBmgs = <<>>
    /\ CodecIdle /\ AnalyzeIdle

\* convert_flag(eventNode, flag)
ConvertFlag ==
    /\ fpc = "start"
    /\ ret' = convert_flag(eventNode, flag)
    /\ loops' = convert_flag_run(flag).iterations
    /\ fpc' = "done"
    /\ UNCHANGED <<eventNode, flag, things>>
    /\ UNCHANGED codecVars /\ UNCHANGED analyzeVars

NextFlag == ConvertFlag

SpecFlag == InitFlag /\ [][NextFlag]_vars

\* ===================================================================== claims
IsDecoded == pc \in {"decoded", "disassembled"}

\* the fields of the instruction value, read off its bytes
Field16(lo, hi) == lo + 256 * hi
Signed16(u) == IF u >= 32768 THEN u - 65536 ELSE u

\* C1: for every value whose byte 0 is 1, 2 or 3, disassembleInstruction succeeds
\* and the returned instruction's assemble() equals the value bit for bit.
C1_RoundTrip ==
    (pc \in {"decoded", "raised"} /\ instruction[1] \in {1, 2, 3})
        => (pc = "decoded" /\ exc = "none" /\ canAssemble(obj) /\ assemble(obj) = instruction)

HasBadWord == \E k \in 1..Len(instructions) : instructions[k][1] \notin {1, 2, 3}

\* C2: a value whose byte 0 is not 1, 2 or 3 makes disassembleInstruction raise
\* ValueError, and a list holding such a value makes disassembleInstructions raise:
\* analyze never gets an instruction list, wherever the value sits in the list.
C2_BadOpcodeAborts ==
    /\ (apc = "raised" /\ ~parsedList.delivered /\ instructions[idx + 1][1] \notin {1, 2, 3})
          => aexc = "ValueError"
    /\ HasBadWord =>
          /\ ~parsedList.delivered
          /\ apc \in {"start", "decode", "raised", "done"}
          /\ apc = "done" => ~hasFLW1
          /\ apc = "raised" => (aexc \in {"ValueError", "AssertionError"} /\ Len(partial) = idx)

\* a bad value behind a decoded one: the prefix was built and is dropped
C2_Witness ==
    /\ apc = "raised" /\ aexc = "ValueError" /\ idx = 1 /\ Len(partial) = 1
    /\ ~parsedList.delivered

\* the class the claim names for each condition value
C3_Variant(condition) ==
    CASE condition = 1 -> "SW_RESP_2"
      [] condition = 2 -> "SW_RESP_3"
      [] condition = 3 -> "SW_RESP_4"
      [] condition = 4 -> "SW_P_FLAG"
      [] condition = 6 -> "SW_T_FLAG"
      [] condition = 8 -> "SW_T2_FLAG"
      [] condition = 27 -> "SW_SHOP"
      [] OTHER -> "SW"

\* C3: a Switch value decodes to the class its condition field selects, and the
\* decoded record carries the value's condition, numLabels, parameter and
\* firstLabel unchanged.
C3_SwitchCarriesFields ==
    (pc = "disassembled" /\ instruction[1] = 2)
        => /\ obj.type = C3_Variant(Field16(instruction[3], instruction[4]))
           /\ obj.condition = Field16(instruction[3], instruction[4])
           /\ obj.numLabels = instruction[2]
           /\ Switch_parameter(obj) = Field16(instruction[5], instruction[6])
           /\ obj.firstLabel = Field16(instruction[7], instruction[8])

\* the class the claim names for each action value
C4_Variant(action) ==
    CASE action = 0 -> "DO_SET_P_FLAG"
      [] action = 1 -> "DO_CLR_P_FLAG"
      [] action = 2 -> "DO_SET_T2_FLAG"
      [] action = 3 -> "DO_CLR_T2_FLAG"
      [] action = 4 -> "DO_SET_T_FLAG"
      [] action = 5 -> "DO_CLR_T_FLAG"
      [] action = 7 -> "DO_SCRPT"
      [] OTHER -> "DO"

\* C4: a Do value decodes to the class its action field selects; an unrecognized
\* action raises nothing and gives the generic class; action, labelNumber and
\* parameter are the value's fields, and .flag of the six flag classes is the
\* parameter field.
C4_DoVariants ==
    /\ (pc \in {"decoded", "raised"} /\ instruction[1] = 3) => (pc = "decoded" /\ exc = "none")
    /\ (IsDecoded /\ instruction[1] = 3) =>
          /\ obj.type = C4_Variant(instruction[2])
          /\ obj.action = instruction[2]
          /\ obj.labelNumber = Signed16(Field16(instruction[3], instruction[4]))
          /\ pack_I(Do_parameter(obj)) = SubSeq(instruction, 5, 8)
          /\ fits_I(Do_parameter(obj))
          /\ obj.type \in DoFlagTypes => pack_I(Do_flag(obj)) = SubSeq(instruction, 5, 8)
          /\ (instruction[2] = 0 /\ SubSeq(instruction, 5, 8) = <<100, 0, 0, 0>>)
                => (obj.type = "DO_SET_P_FLAG" /\ BigToNat(Do_flag(obj)) = 100)

\* an unrecognized action with a negative label number and an all-ones parameter
C4_Witness ==
    /\ pc = "decoded" /\ instruction[1] = 3 /\ obj.type = "DO" /\ obj.action = 9
    /\ obj.labelNumber = -1 /\ Do_parameter(obj) = <<255, 255, 255, 255>>

\* the four bytes of a 32-bit value with its 16-bit halves exchanged
HalvesExchanged(b) == <<b[3], b[4], b[1], b[2]>>

\* C5: for the launch-script class, scriptID is the parameter field with its
\* 16-bit halves exchanged; reading parameter back and assembling give the field
\* again; after scriptID = s the assembled parameter field is s with its halves
\* exchanged, and exchanging twice gives s.
C5_ScriptIDSwap ==
    /\ (IsDecoded /\ obj.type = "DO_SCRPT") =>
          /\ fits_I(obj.scriptID)
          /\ pack_I(obj.scriptID) = HalvesExchanged(SubSeq(instruction, 5, 8))
          /\ pack_I(Do_parameter(obj)) = SubSeq(instruction, 5, 8)
          /\ assemble(obj) = instruction
    /\ (pc = "edited") =>
          /\ fits_I(Do_parameter(obj))
          /\ pack_I(Do_parameter(obj)) = HalvesExchanged(pack_I(obj.scriptID))
          /\ SwapHalves(SwapHalves(obj.scriptID)) = obj.scriptID
          /\ assembled # <<>> =>
                /\ SubSeq(assembled, 5, 8) = HalvesExchanged(pack_I(obj.scriptID))
                /\ SubSeq(assembled, 1, 4) = SubSeq(instruction, 1, 4)

\* scriptID set to 0x56781234 and the instruction assembled again
C5_Witness ==
    /\ pc = "edited" /\ obj.scriptID = <<52, 18, 120, 86>>
    /\ assembled # <<>> /\ SubSeq(assembled, 5, 8) = <<120, 86, 52, 18>>

RECURSIVE SpecFold(_, _)
\* section 4.3 on a mask 1 << e: while the mask is above 0x80 (e > 7), shift it
\* right by 8 (e - 8) and step the address
SpecFold(address, e) ==
    IF e > 7 THEN SpecFold(address + 1, e - 8) ELSE <<address, 2 ^ e>>

\* flag >> 5 read off the digits of a flag number below 2^32
FlagGroup(f) ==
    (BigDigit(f, 1) \div 32) + 8 * BigDigit(f, 2) + 2048 * BigDigit(f, 3)
        + 524288 * BigDigit(f, 4)

\* C6: convert_flag(base, flag) returns what the stepwise algorithm of section 4.3
\* returns, and flags 0, 7, 8, 31, 32 give (base, 0x01), (base, 0x80),
\* (base+1, 0x01), (base+3, 0x80), (base+4, 0x01).
C6_ConvertFlag ==
    fpc = "done" =>
        /\ ret = SpecFold(eventNode + FlagGroup(flag) * 4, BigDigit(flag, 1) % 32)
        /\ flag = <<>> => ret = <<eventNode, 1>>
        /\ flag = <<7>> => ret = <<eventNode, 128>>
        /\ flag = <<8>> => ret = <<eventNode + 1, 1>>
        /\ flag = <<31>> => ret = <<eventNode + 3, 128>>
        /\ flag = <<32>> => ret = <<eventNode + 4, 1>>

\* flag 31 of the real base: the loop runs three times
C6_Witness ==
    /\ fpc = "done" /\ flag = <<31>> /\ eventNode = FlagBase
    /\ ret = <<FlagBase + 3, 128>> /\ loops = 3

IsSay == pc # "idle" /\ instruction[1] = 1

\* the last operand of the rendered instruction
GotoOperand == rendered.args[Len(rendered.args)]

\* C7: a Say value with gotoIndex 0xFFFF and gotoContainer 0xFF decodes to
\* nextLabel (-1, -1), which isNull, and renders with the goto operand END; a Say
\* value whose goto fields are both non-negative renders B{container}_L{index} with
\* the decoded values.
C7_SayGoto ==
    /\ (IsSay /\ pc \in {"decoded", "raised"}) => pc = "decoded"
    /\ (IsSay /\ SubSeq(instruction, 5, 7) = <<255, 255, 255>>) =>
          /\ IsDecoded => (obj.nextLabel = Label(-1, -1) /\ isNull(obj.nextLabel))
          /\ rendered.exc = "none" => GotoOperand = "goto=END"
    /\ (IsSay /\ instruction[6] < 128 /\ instruction[7] < 128) =>
          /\ IsDecoded => (obj.nextLabel.bmg >= 0 /\ obj.nextLabel.index >= 0)
          /\ (IsDecoded /\ rendered.exc = "none") =>
                GotoOperand = "goto=B" \o ToString(obj.nextLabel.bmg) \o "_L"
                                \o ToString(obj.nextLabel.index)
          /\ rendered.exc = "none" =>
                GotoOperand = "goto=B" \o ToString(instruction[7]) \o "_L"
                                \o ToString(Field16(instruction[5], instruction[6]))

\* scenario A, 01 00 05 00 FF FF FF FF, decoded and rendered
C7_Witness ==
    /\ instruction = <<1, 0, 5, 0, 255, 255, 255, 255>>
    /\ pc = "decoded" /\ isNull(obj.nextLabel)
    /\ rendered.exc = "none" /\ rendered.args = <<"msg=0/5", "goto=END">>

\* the names the claim gives the branches of each class
C8_Names(type) ==
    CASE type \in {"SW_P_FLAG", "SW_T_FLAG", "SW_T2_FLAG"} -> <<"true", "false">>
      [] type = "SW_SHOP" ->
            <<"Castle Town Shop", "Forest's General Store", "Anouki General Store",
              "Papuchia Shop", "Goron Country Store">>
      [] OTHER ->
            <<"(first response)", "(second response)", "(third response)",
              "(fourth response)">>

\* C8: for a decoded Switch instruction and 0 <= i < numLabels, nameForBranch(i)
\* returns a string and never fails: the class's name of ordinal i, and the decimal
\* text of i for the generic class.
C8_BranchNameTotal ==
    (IsDecoded /\ branch.exc # "not called") =>
        /\ branch.exc = "none"
        /\ obj.type = "SW" => branch.name = ToString(branch.i)
        /\ (obj.type # "SW" /\ branch.i < Len(C8_Names(obj.type)))
              => branch.name = C8_Names(obj.type)[branch.i + 1]

\* the label-table slots an instruction value refers to
LabelRefs(w) ==
    CASE w[1] = 2 -> {Field16(w[7], w[8]) + i : i \in 0..(w[2] - 1)}
      [] w[1] = 3 -> {Field16(w[3], w[4])}
      [] OTHER -> {}

RefsInRange(w) == \A r \in LabelRefs(w) : r < Len(labels)

\* what stops the rendering of a value other than a label reference
OtherFault(w) ==
    \/ w[1] \notin {1, 2, 3}
    \/ w[1] = 1 /\ (w[2] \notin DOMAIN allBmgs \/ Field16(w[3], w[4]) >= Len(allBmgs[w[2]]))
    \/ w[1] = 2 /\ Field16(w[3], w[4]) = 1 /\ Field16(w[5], w[6]) # 0

\* the listing line of instruction k (0-based) when its references are in range
InstructionLine(k) ==
    LinePrefix(ownBmgID, k)
        \o disassembler_disassembleInstruction(instructions[k + 1], labels, allBmgs).line

\* C9: a label reference beyond the label table stops only that instruction's
\* rendering: when analyze has ended, the listing holds the line of every
\* instruction whose references are in range.
C9_OutOfRangeIsLocal ==
    (/\ apc \in {"raised", "done"} /\ hasFLW1 /\ parsedList.delivered
     /\ \A k \in 1..Len(instructions) : ~OtherFault(instructions[k]))
        => \A k \in 1..Len(instructions) :
              RefsInRange(instructions[k]) =>
                  /\ scriptsFile.written
                  /\ \E n \in 1..Len(scriptsFile.lines) :
                        scriptsFile.lines[n] = InstructionLine(k - 1)

IsSwitch == pc # "idle" /\ instruction[1] = 2

\* C10 on a state: numLabels entries, entry i made from slot firstLabel + i, and
\* these slots the only ones read
C10_Entries ==
    (/\ IsSwitch /\ rendered.exc # "not called"
     /\ Field16(instruction[7], instruction[8]) + instruction[2] <= Len(labels)) =>
        LET n == instruction[2]
            f == Field16(instruction[7], instruction[8])
        IN  /\ rendered.exc \in {"none", "AssertionError"}
            /\ rendered.exc = "none" =>
                  /\ Len(rendered.gotoLabels) = n
                  /\ \A i \in 0..(n - 1) :
                        rendered.gotoLabels[i + 1] =
                            "B" \o ToString(labels[f + i + 1][1]) \o "_L"
                                \o ToString(labels[f + i + 1][2])
                  /\ rendered.reads = [i \in 1..n |-> f + i - 1]
                  /\ GotoOperand = "goto=[" \o Join(", ", rendered.gotoLabels) \o "]"

C11_SentinelIsEnd ==
    (pc # "idle" /\ rendered.exc = "none") =>
        /\ (instruction[1] = 1 /\ SubSeq(instruction, 5, 7) = <<255, 255, 255>>)
              => GotoOperand = "goto=END"
        /\ instruction[1] = 1 => GotoOperand # "goto=B-1_L-1"
        /\ instruction[1] = 2 =>
              \A i \in 1..Len(rendered.reads) :
                  /\ rendered.gotoLabels[i] # "B-1_L-1"
                  /\ labels[rendered.reads[i] + 1] = <<-1, -1>>
                        => rendered.gotoLabels[i] = "END"
        /\ instruction[1] = 3 =>
              /\ GotoOperand # "goto=B-1_L-1"
              /\ labels[Field16(instruction[3], instruction[4]) + 1] = <<-1, -1>>
                    => GotoOperand = "goto=END"

\* C12: decoding and rendering hold no ambient state: after any sequence of decode and
\* render calls the module-level set `things` has the value it had before the first
\* call, and the line rendered for a word is the one the word, the label table and the
\* BMGs give by themselves, whatever words were rendered before it.
C12_NoAmbientState ==
    /\ things = {}
    /\ apc \in {"render", "messages"} =>
          \A i \in 1..idx :
              \E j \in 1..Len(lines) :
                  lines[j] = LinePrefix(ownBmgID, i - 1)
                               \o disassembler_disassembleInstruction(instructions[i], labels,
                                                                      allBmgs).line

\* flag div 8 read off the digits of a flag number below 2^32
FlagDiv8(f) ==
    (BigDigit(f, 1) \div 8) + 32 * BigDigit(f, 2) + 8192 * BigDigit(f, 3)
        + 2097152 * BigDigit(f, 4)

\* C13: for every base and every flag f >= 0, convert_flag(base, f) is
\* (base + f div 8, 1 << (f mod 8)); the mask has exactly one bit set, in 0x01..0x80,
\* and the folding loop runs at most three times.
C13_ClosedForm ==
    fpc = "done" =>
        /\ ret = <<eventNode + FlagDiv8(flag), 2 ^ (BigDigit(flag, 1) % 8)>>
        /\ ret[2] \in {1, 2, 4, 8, 16, 32, 64, 128}
        /\ loops <= 3

\* flag 63 of base -8: byte 7 past the base, top bit, three passes of the loop
C13_Witness ==
    /\ fpc = "done" /\ flag = <<63>> /\ eventNode = -8
    /\ ret = <<-1, 128>> /\ loops = 3

\* C14: the renderer and the codec agree on every Say value: the renderer prints END
\* for the goto operand exactly when the decoded nextLabel.isNull() (container and
\* index both -1), and otherwise the container and index it prints are the codec's
\* signed nextLabel.bmg and nextLabel.index.
C14_RendererAgreesWithCodec ==
    (IsSay /\ IsDecoded /\ rendered.exc = "none") =>
        /\ (GotoOperand = "goto=END") <=> isNull(obj.nextLabel)
        /\ ~isNull(obj.nextLabel) =>
              GotoOperand = "goto=" \o LabelName(obj.nextLabel.bmg, obj.nextLabel.index)

====
